---- MODULE Spec2Model ----
(***************************************************************************)
(* Model of src/main.py: the SarcasmDetector module (construction and      *)
(* forward pass), train_epoch and the __main__ driver loop.                *)
(*                                                                         *)
(* Two specifications share the module.  Spec runs the driver: model       *)
(* construction, optimizer construction, and NumEpochs calls of            *)
(* train_epoch, one statement per step.  SpecForward runs forward() as a   *)
(* pure function on a batch drawn from bounded sets, stage by stage.       *)
(*                                                                         *)
(* Abstractions.  Parameter tensors are version counters: a parameter      *)
(* group's value is the number of optimizer updates applied to it (every   *)
(* update is taken to change the value: nonzero gradient and learning      *)
(* rate).  A gradient is either absent (None) or the set of                *)
(* (epoch, batch) backward passes accumulated into it.  A dropout rate is  *)
(* an integer number of tenths.  The mean loss is kept as the exact        *)
(* fraction num/den.  In SpecForward a tensor is its shape plus, per       *)
(* (row, time step), the provenance of the value held there.               *)
(***************************************************************************)
EXTENDS Integers, Sequences, FiniteSets, TLC

\* ---------------------------------------------------------------- bounds
MaxBatches == 2
MaxLoss == 1
MaxB == 2
MaxL == 2
MaxLogit == 1

\* ------------------------------------------------------ program constants
NumEpochs == 5
BertDim == 768
CnnOutChannels == 256
LstmHiddenSize == 128
DenseHiddenSize == 64
NumClasses == 2
KernelSize == 3
Padding == 1
NumLayers == 2

\* dropout_rate values tried at construction, in tenths: -0.1, 0.0, 0.3, 1.0, 1.1
DropoutRates == {-1, 0, 3, 10, 11}

ParamGroups == {"enc", "head"}

VARIABLES
    pc,             \* statement the driver / train_epoch is about to execute
    dropout_rate,   \* model_params['dropout_rate'], in tenths
    freeze_bert,    \* model_params['freeze_bert']
    num_batches,    \* len(train_loader)
    requires_grad,  \* param group -> requires_grad flag
    training,       \* module -> nn.Module.training flag
    params,         \* param group -> version (number of updates applied)
    grad,           \* param group -> [has, src]: .grad is None or accumulated
    graph,          \* param groups reachable by autograd from `outputs`
    opt_params,     \* param groups handed to the optimizer
    opt_steps,      \* optimizer.step() calls completed
    epoch,          \* loop variable of the driver (0-based)
    k,              \* batches drawn from train_loader in this call (1-based index of the current one)
    loss,           \* train_epoch's local `loss` (loss.item())
    total_loss,     \* train_epoch's local `total_loss`
    batch_losses,   \* history: the loss values of the batches of this call
    params_at_entry,\* history: params when train_epoch was entered
    ret,            \* <<>> or <<value>>: what the current train_epoch call returned
    output,         \* lines printed by the driver loop
    err,            \* <<>> or <<record>>: the exception raised, with where
    fpc,            \* SpecForward: stage of forward()
    input_ids,      \* SpecForward: shape of the token-id batch
    attention_mask, \* SpecForward: [shape, data] of the mask batch
    tensor,         \* SpecForward: the tensor flowing through forward()
    shapes,         \* SpecForward: history of the shapes produced so far
    h_n,            \* SpecForward: the LSTM's own final-state output, per row
    predictions     \* SpecForward: <<>> or <<[shape, rows]>>

trainVars == <<pc, dropout_rate, freeze_bert, num_batches, requires_grad, training,
               params, grad, graph, opt_params, opt_steps, epoch, k, loss,
               total_loss, batch_losses, params_at_entry, ret, output, err>>
fwdVars == <<fpc, input_ids, attention_mask, tensor, shapes, h_n, predictions>>
vars == <<trainVars, fwdVars>>

\* ------------------------------------------------------------- helpers
RECURSIVE SumSeq(_)
SumSeq(s) == IF s = <<>> THEN 0 ELSE s[1] + SumSeq(Tail(s))

NoGrad == [has |-> FALSE, src |-> {}]

\* ====================================================== SarcasmDetector
\* nn.LSTM(dropout=p) raises ValueError unless 0 <= p <= 1, and
\* nn.Dropout(p) raises ValueError if p < 0 or p > 1; __init__ adds no check.
ValidDropout_unchecked(p) == TRUE
ValidDropout(p) == 0 <= p /\ p <= 10

\* BertModel.from_pretrained, then `if freeze_bert: param.requires_grad = False`
InitRequiresGrad(freeze) == [g \in ParamGroups |-> IF g = "enc" THEN ~freeze ELSE TRUE]

\* from_pretrained returns the encoder in eval mode; nn.Module.__init__ leaves
\* the freshly built container in training mode.
InitTraining == [model |-> TRUE, bert |-> FALSE]

\* nn.Module.train(): sets self.training and recurses into every child module;
\* self.bert is a child of the model.
ModuleTrain(t) == [m \in DOMAIN t |-> TRUE]

\* `with torch.no_grad():` around the self.bert(...) call
NoGradScope_removed == FALSE
NoGradScope == TRUE

\* Parameter groups the autograd graph of `outputs` reaches: a group needs
\* requires_grad, and the encoder's also need the encoder call to be recorded.
ForwardGraph(rg) == {g \in ParamGroups : rg[g] /\ (g = "enc" => ~NoGradScope)}

\* ========================================================== train_epoch
\* optimizer.zero_grad(): every parameter's .grad is reset
ZeroGrad_skipped(g) == g
ZeroGrad(g) == NoGrad

\* loss.backward(): accumulates into .grad of every parameter in the graph
Backward(g, inGraph, src) ==
    IF inGraph THEN [has |-> TRUE, src |-> g.src \cup {src}] ELSE g

\* AdamW.step(): a parameter whose .grad is None is skipped
StepUpdates_all(g) == TRUE
StepUpdates(g) == g.has

\* total_loss += loss.item()
Accumulate_overwrite(total, l) == l
Accumulate(total, l) == total + l

\* total_loss / len(train_loader), as an exact fraction
Mean(total, n) == [num |-> total, den |-> n]

\* for epoch in range(num_epochs)
HasNextEpoch_short(e) == e < NumEpochs - 1
HasNextEpoch(e) == e < NumEpochs

\* f'Epoch {epoch+1}/{num_epochs}, ...'
EpochLabel(e) == e + 1

\* Statements of train_epoch's loop body that can raise (tensor shape, device
\* or memory errors): lines 78-80, 84, 85, 88, 89.
FailSites == {"to_device", "forward", "loss", "backward", "step"}

\* Where control goes when a statement of train_epoch raises: neither
\* train_epoch nor the driver has a try/except, so the exception leaves both.
Handler_swallow(site) == "batch_loop"
Handler(site) == "raised"

TrainInit ==
    /\ pc = "construct"
    /\ dropout_rate \in DropoutRates
    /\ freeze_bert \in BOOLEAN
    /\ num_batches \in 0..MaxBatches
    /\ requires_grad = [g \in ParamGroups |-> TRUE]
    /\ training = [model |-> FALSE, bert |-> FALSE]
    /\ params = [g \in ParamGroups |-> 0]
    /\ grad = [g \in ParamGroups |-> NoGrad]
    /\ graph = {}
    /\ opt_params = {}
    /\ opt_steps = 0
    /\ epoch = 0
    /\ k = 0
    /\ loss = 0
    /\ total_loss = 0
    /\ batch_losses = <<>>
    /\ params_at_entry = [g \in ParamGroups |-> 0]
    /\ ret = <<>>
    /\ output = <<>>
    /\ err = <<>>

FwdIdle ==
    /\ fpc = "idle"
    /\ input_ids = <<>>
    /\ attention_mask = <<>>
    /\ tensor = <<>>
    /\ shapes = <<>>
    /\ h_n = <<>>
    /\ predictions = <<>>

Init == TrainInit /\ FwdIdle

\* model = SarcasmDetector(**model_params).to(device)
Construct ==
    /\ pc = "construct"
    /\ IF ValidDropout(dropout_rate)
       THEN /\ requires_grad' = InitRequiresGrad(freeze_bert)
            /\ training' = InitTraining
            /\ pc' = "optimizer"
            /\ err' = err
       ELSE /\ pc' = "raised"
            /\ err' = <<[type |-> "ValueError", site |-> "construct", epoch |-> 0, batch |-> 0]>>
            /\ UNCHANGED <<requires_grad, training>>
    /\ UNCHANGED <<dropout_rate, freeze_bert, num_batches, params, grad, graph,
                   opt_params, opt_steps, epoch, k, loss, total_loss, batch_losses,
                   params_at_entry, ret, output, fwdVars>>

\* optimizer = torch.optim.AdamW(model.parameters(), lr=...)
MakeOptimizer ==
    /\ pc = "optimizer"
    /\ opt_params' = ParamGroups
    /\ pc' = "epoch_loop"
    /\ UNCHANGED <<dropout_rate, freeze_bert, num_batches, requires_grad, training,
                   params, grad, graph, opt_steps, epoch, k, loss, total_loss,
                   batch_losses, params_at_entry, ret, output, err, fwdVars>>

\* for epoch in range(training_params['num_epochs']):
EpochLoop ==
    /\ pc = "epoch_loop"
    /\ pc' = IF HasNextEpoch(epoch) THEN "train_epoch" ELSE "done"
    /\ UNCHANGED <<dropout_rate, freeze_bert, num_batches, requires_grad, training,
                   params, grad, graph, opt_params, opt_steps, epoch, k, loss,
                   total_loss, batch_losses, params_at_entry, ret, output, err, fwdVars>>

\* train_epoch entry: model.train(); total_loss = 0
TrainEpochEnter ==
    /\ pc = "train_epoch"
    /\ training' = ModuleTrain(training)
    /\ total_loss' = 0
    /\ k' = 0
    /\ batch_losses' = <<>>
    /\ params_at_entry' = params
    /\ ret' = <<>>
    /\ pc' = "batch_loop"
    /\ UNCHANGED <<dropout_rate, freeze_bert, num_batches, requires_grad, params,
                   grad, graph, opt_params, opt_steps, epoch, loss, output, err, fwdVars>>

\* for batch in train_loader:
BatchLoop ==
    /\ pc = "batch_loop"
    /\ IF k < num_batches
       THEN k' = k + 1 /\ pc' = "to_device"
       ELSE k' = k /\ pc' = "return"
    /\ UNCHANGED <<dropout_rate, freeze_bert, num_batches, requires_grad, training,
                   params, grad, graph, opt_params, opt_steps, epoch, loss,
                   total_loss, batch_losses, params_at_entry, ret, output, err, fwdVars>>

\* input_ids / attention_mask / labels = batch[...].to(device)
ToDevice ==
    /\ pc = "to_device"
    /\ pc' = "zero_grad"
    /\ UNCHANGED <<dropout_rate, freeze_bert, num_batches, requires_grad, training,
                   params, grad, graph, opt_params, opt_steps, epoch, k, loss,
                   total_loss, batch_losses, params_at_entry, ret, output, err, fwdVars>>

\* optimizer.zero_grad()
ZeroGradStep ==
    /\ pc = "zero_grad"
    /\ grad' = [g \in ParamGroups |-> IF g \in opt_params THEN ZeroGrad(grad[g]) ELSE grad[g]]
    /\ pc' = "forward"
    /\ UNCHANGED <<dropout_rate, freeze_bert, num_batches, requires_grad, training,
                   params, graph, opt_params, opt_steps, epoch, k, loss, total_loss,
                   batch_losses, params_at_entry, ret, output, err, fwdVars>>

\* outputs = model(input_ids, attention_mask)
ForwardStep ==
    /\ pc = "forward"
    /\ graph' = ForwardGraph(requires_grad)
    /\ pc' = "loss"
    /\ UNCHANGED <<dropout_rate, freeze_bert, num_batches, requires_grad, training,
                   params, grad, opt_params, opt_steps, epoch, k, loss, total_loss,
                   batch_losses, params_at_entry, ret, output, err, fwdVars>>

\* loss = criterion(outputs, labels): cross entropy, a non-negative value
LossStep ==
    /\ pc = "loss"
    /\ \E l \in 0..MaxLoss :
          /\ loss' = l
          /\ batch_losses' = Append(batch_losses, l)
    /\ pc' = "backward"
    /\ UNCHANGED <<dropout_rate, freeze_bert, num_batches, requires_grad, training,
                   params, grad, graph, opt_params, opt_steps, epoch, k, total_loss,
                   params_at_entry, ret, output, err, fwdVars>>

\* loss.backward()
BackwardStep ==
    /\ pc = "backward"
    /\ grad' = [g \in ParamGroups |-> Backward(grad[g], g \in graph, <<epoch, k>>)]
    /\ pc' = "step"
    /\ UNCHANGED <<dropout_rate, freeze_bert, num_batches, requires_grad, training,
                   params, graph, opt_params, opt_steps, epoch, k, loss, total_loss,
                   batch_losses, params_at_entry, ret, output, err, fwdVars>>

\* optimizer.step()
OptimizerStep ==
    /\ pc = "step"
    /\ params' = [g \in ParamGroups |->
                     IF g \in opt_params /\ StepUpdates(grad[g])
                     THEN params[g] + 1 ELSE params[g]]
    /\ opt_steps' = opt_steps + 1
    /\ pc' = "accumulate"
    /\ UNCHANGED <<dropout_rate, freeze_bert, num_batches, requires_grad, training,
                   grad, graph, opt_params, epoch, k, loss, total_loss, batch_losses,
                   params_at_entry, ret, output, err, fwdVars>>

\* total_loss += loss.item()
AccumulateStep ==
    /\ pc = "accumulate"
    /\ total_loss' = Accumulate(total_loss, loss)
    /\ pc' = "batch_loop"
    /\ UNCHANGED <<dropout_rate, freeze_bert, num_batches, requires_grad, training,
                   params, grad, graph, opt_params, opt_steps, epoch, k, loss,
                   batch_losses, params_at_entry, ret, output, err, fwdVars>>

\* return total_loss / len(train_loader): ZeroDivisionError on an empty loader
ReturnStep ==
    /\ pc = "return"
    /\ IF num_batches = 0
       THEN /\ pc' = "raised"
            /\ err' = <<[type |-> "ZeroDivisionError", site |-> "return",
                         epoch |-> epoch, batch |-> k]>>
            /\ ret' = ret
       ELSE /\ ret' = <<Mean(total_loss, num_batches)>>
            /\ pc' = "print"
            /\ err' = err
    /\ UNCHANGED <<dropout_rate, freeze_bert, num_batches, requires_grad, training,
                   params, grad, graph, opt_params, opt_steps, epoch, k, loss,
                   total_loss, batch_losses, params_at_entry, output, fwdVars>>

\* print(f'Epoch {epoch+1}/{num_epochs}, Loss: {loss:.4f}'), then the next
\* iteration of the driver's for loop
PrintStep ==
    /\ pc = "print"
    /\ output' = Append(output, [epoch |-> EpochLabel(epoch), of |-> NumEpochs, loss |-> ret[1]])
    /\ epoch' = epoch + 1
    /\ pc' = "epoch_loop"
    /\ UNCHANGED <<dropout_rate, freeze_bert, num_batches, requires_grad, training,
                   params, grad, graph, opt_params, opt_steps, k, loss, total_loss,
                   batch_losses, params_at_entry, ret, err, fwdVars>>

\* A statement of the loop body raises (shape mismatch, device mismatch,
\* out of memory): the statement has no effect and the exception propagates.
Raise ==
    /\ pc \in FailSites
    /\ err' = <<[type |-> "RuntimeError", site |-> pc, epoch |-> epoch, batch |-> k]>>
    /\ pc' = Handler(pc)
    /\ UNCHANGED <<dropout_rate, freeze_bert, num_batches, requires_grad, training,
                   params, grad, graph, opt_params, opt_steps, epoch, k, loss,
                   total_loss, batch_losses, params_at_entry, ret, output, fwdVars>>

Next ==
    \/ Construct
    \/ MakeOptimizer
    \/ EpochLoop
    \/ TrainEpochEnter
    \/ BatchLoop
    \/ ToDevice
    \/ ZeroGradStep
    \/ ForwardStep
    \/ LossStep
    \/ BackwardStep
    \/ OptimizerStep
    \/ AccumulateStep
    \/ ReturnStep
    \/ PrintStep
    \/ Raise

Spec == Init /\ [][Next]_vars

\* =============================================================== forward
\* A tensor is [shape, data]; data[b][t] is the provenance of the value at
\* row b, time step t.  ShapeError is the result of an operation whose
\* operand has the wrong rank or size (PyTorch raises there).
ShapeError == <<>>

PadCell(b) == [b |-> b, t |-> 0, mask |-> <<>>]

\* self.bert(input_ids=..., attention_mask=...).last_hidden_state: one
\* BertDim vector per token; the value at (b, t) depends on row b's mask.
BertShape(ids, mask) ==
    IF Len(ids) = 2 /\ ids = mask THEN <<ids[1], ids[2], BertDim>> ELSE ShapeError

BertData(ids, mask) ==
    [b \in 1..ids[1] |-> [t \in 1..ids[2] |-> [b |-> b, t |-> t, mask |-> mask.data[b]]]]

\* x.permute(0, 2, 1)
Permute021(s) == IF Len(s) = 3 THEN <<s[1], s[3], s[2]>> ELSE ShapeError

\* nn.Conv1d(kernel_size=3, padding=1), stride 1, dilation 1: output length
Conv1dOutLen_nopad(len) == len - (KernelSize - 1)
Conv1dOutLen(len) == len + 2 * Padding - (KernelSize - 1)

Conv1dShape(s) ==
    IF Len(s) = 3 /\ s[2] = BertDim /\ Conv1dOutLen(s[3]) >= 1
    THEN <<s[1], CnnOutChannels, Conv1dOutLen(s[3])>>
    ELSE ShapeError

\* output position t reads input positions t-Padding .. t-Padding+KernelSize-1,
\* zero padding outside the sequence; ReLU is elementwise
Conv1dData(d, len) ==
    [b \in 1..Len(d) |->
        [t \in 1..Conv1dOutLen(len) |->
            [i \in 1..KernelSize |->
                LET j == t - Padding + i - 1
                IN IF j >= 1 /\ j <= len THEN d[b][j] ELSE PadCell(b)]]]

\* One LSTM cell step: the state after consuming input x (time step t) from
\* state h.  A state is the history of what the direction has consumed.
LstmCell(h, t, x) == Append(h, [t |-> t, x |-> x])

\* forward direction: state at position t has consumed xs[1..t]
RECURSIVE FwdPass(_, _)
FwdPass(xs, t) == IF t = 0 THEN <<>> ELSE LstmCell(FwdPass(xs, t - 1), t, xs[t])

\* backward direction: state at position t has consumed xs[Len .. t]
RECURSIVE BwdPass(_, _)
BwdPass(xs, t) == IF t > Len(xs) THEN <<>> ELSE LstmCell(BwdPass(xs, t + 1), t, xs[t])

\* one bidirectional layer: the output at t concatenates both directions' states at t
LstmLayer(xs) == [t \in 1..Len(xs) |-> [fwd |-> FwdPass(xs, t), bwd |-> BwdPass(xs, t)]]

\* num_layers stacked layers, each fed the previous layer's output sequence
\* (inter-layer dropout is elementwise)
RECURSIVE LstmStack(_, _)
LstmStack(xs, n) == IF n = 0 THEN xs ELSE LstmLayer(LstmStack(xs, n - 1))

\* the layer below the last one, whose output the last layer consumes
LstmLastInput(xs) == LstmStack(xs, NumLayers - 1)

LstmShape(s) ==
    IF Len(s) = 3 /\ s[3] = CnnOutChannels THEN <<s[1], s[2], 2 * LstmHiddenSize>> ELSE ShapeError

\* nn.LSTM's second output, h_n, for the last layer: cat(h_n[-2], h_n[-1]),
\* each direction's state after its whole pass (forward() discards it as `_`)
LstmFinalState(xs) ==
    [fwd |-> FwdPass(LstmLastInput(xs), Len(xs)), bwd |-> BwdPass(LstmLastInput(xs), 1)]

\* lstm_out[:, -1, :]
LastIndex_first(len) == 1
LastIndex(len) == len

SelectShape(s) == IF Len(s) = 3 THEN <<s[1], s[3]>> ELSE ShapeError

\* nn.Linear(in, out): the last dimension must be in_features
LinearShape(s, in, out) ==
    IF s # ShapeError /\ s[Len(s)] = in THEN [s EXCEPT ![Len(s)] = out] ELSE ShapeError

\* nn.Softmax(dim=1) on (B x NumClasses) logits, as exact fractions with
\* exp replaced by 2^x: entry (b, c) is e(b,c) / sum over the classes of row b
SoftmaxDen(logits, b, c) ==
    LET S[i \in 0..NumClasses] == IF i = 0 THEN 0 ELSE S[i - 1] + 2 ^ logits[b][i]
    IN S[NumClasses]

Softmax(logits) ==
    [b \in 1..Len(logits) |->
        [c \in 1..NumClasses |-> [num |-> 2 ^ logits[b][c], den |-> SoftmaxDen(logits, b, c)]]]

TrainIdle ==
    /\ pc = "idle"
    /\ dropout_rate = 3
    /\ freeze_bert = TRUE
    /\ num_batches = 0
    /\ requires_grad = InitRequiresGrad(TRUE)
    /\ training = InitTraining
    /\ params = [g \in ParamGroups |-> 0]
    /\ grad = [g \in ParamGroups |-> NoGrad]
    /\ graph = {}
    /\ opt_params = {}
    /\ opt_steps = 0
    /\ epoch = 0
    /\ k = 0
    /\ loss = 0
    /\ total_loss = 0
    /\ batch_losses = <<>>
    /\ params_at_entry = [g \in ParamGroups |-> 0]
    /\ ret = <<>>
    /\ output = <<>>
    /\ err = <<>>

\* forward(input_ids, attention_mask) is called with a (B x L) token batch
\* and a same-shaped 0/1 mask
InitForward ==
    /\ TrainIdle
    /\ fpc = "bert"
    /\ \E B \in 1..MaxB, L \in 1..MaxL :
          /\ input_ids = <<B, L>>
          /\ attention_mask \in [shape : {<<B, L>>}, data : [1..B -> [1..L -> {0, 1}]]]
    /\ tensor = [shape |-> <<>>, data |-> <<>>]
    /\ shapes = <<>>
    /\ h_n = <<>>
    /\ predictions = <<>>

\* a stage's result: on a shape error the call fails, else it moves on
Stage(next, shp, data, trace) ==
    /\ tensor' = [shape |-> shp, data |-> IF shp = ShapeError THEN <<>> ELSE data]
    /\ shapes' = shapes \o trace
    /\ fpc' = IF shp = ShapeError THEN "failed" ELSE next

\* with torch.no_grad(): bert_output = self.bert(...); .last_hidden_state
FwdBert ==
    /\ fpc = "bert"
    /\ LET shp == BertShape(input_ids, attention_mask.shape)
       IN Stage("conv", shp, BertData(input_ids, attention_mask), <<shp>>)
    /\ UNCHANGED <<trainVars, input_ids, attention_mask, h_n, predictions>>

\* cnn_in = permute; cnn_out = relu(conv1d(cnn_in)); lstm_in = permute
FwdConv ==
    /\ fpc = "conv"
    /\ LET cnn_in == Permute021(tensor.shape)
           cnn_out == Conv1dShape(cnn_in)
           lstm_in == Permute021(cnn_out)
       IN Stage("lstm", lstm_in, Conv1dData(tensor.data, tensor.shape[2]),
                <<cnn_in, cnn_out, lstm_in>>)
    /\ UNCHANGED <<trainVars, input_ids, attention_mask, h_n, predictions>>

\* lstm_out, _ = self.lstm(lstm_in)
FwdLstm ==
    /\ fpc = "lstm"
    /\ LET shp == LstmShape(tensor.shape)
       IN /\ Stage("select", shp,
                   [b \in 1..Len(tensor.data) |-> LstmStack(tensor.data[b], NumLayers)],
                   <<shp>>)
          /\ h_n' = IF shp = ShapeError THEN <<>>
                    ELSE [b \in 1..Len(tensor.data) |-> LstmFinalState(tensor.data[b])]
    /\ UNCHANGED <<trainVars, input_ids, attention_mask, predictions>>

\* final_hidden = lstm_out[:, -1, :]
FwdSelect ==
    /\ fpc = "select"
    /\ LET shp == SelectShape(tensor.shape)
       IN Stage("head", shp,
                [b \in 1..Len(tensor.data) |-> tensor.data[b][LastIndex(tensor.shape[2])]],
                <<shp>>)
    /\ UNCHANGED <<trainVars, input_ids, attention_mask, h_n, predictions>>

\* dense1, relu, dropout, dense2, softmax.  The learned weights are opaque:
\* the logits of each row are any values of the bounded range.
FwdHead ==
    /\ fpc = "head"
    /\ LET d1 == LinearShape(tensor.shape, 2 * LstmHiddenSize, DenseHiddenSize)
           d2 == LinearShape(d1, DenseHiddenSize, NumClasses)
       IN /\ shapes' = shapes \o <<d1, d2>>
          /\ IF d2 = ShapeError
             THEN /\ fpc' = "failed"
                  /\ predictions' = predictions
             ELSE /\ fpc' = "done"
                  /\ \E logits \in [1..d2[1] -> [1..NumClasses -> 0..MaxLogit]] :
                        predictions' = <<[shape |-> d2, rows |-> Softmax(logits)]>>
    /\ UNCHANGED <<trainVars, input_ids, attention_mask, tensor, h_n>>

NextForward ==
    \/ FwdBert
    \/ FwdConv
    \/ FwdLstm
    \/ FwdSelect
    \/ FwdHead

SpecForward == InitForward /\ [][NextForward]_vars

\* ================================================================ claims
InBatch == {"to_device", "zero_grad", "forward", "loss", "backward", "step", "accumulate"}
BeforeStep == {"to_device", "zero_grad", "forward", "loss", "backward", "step"}

\* C1: when train_epoch returns (no batch failed, N >= 1 batches), the value
\* returned is (sum of the N per-batch losses) / N: the numerator is the sum
\* of the losses of the batches, each counted once, the denominator is the
\* number of batches, and the value is non-negative; while the loop runs,
\* total_loss is the sum of the losses of the batches completed so far.
C1_MeanOfBatchLosses ==
    /\ pc = "batch_loop" => (Len(batch_losses) = k /\ total_loss = SumSeq(batch_losses))
    /\ pc = "print" =>
          /\ num_batches >= 1
          /\ Len(ret) = 1
          /\ Len(batch_losses) = num_batches
          /\ ret[1].den = num_batches
          /\ ret[1].num = SumSeq(batch_losses)
          /\ ret[1].num >= 0

C1_Witness ==
    /\ pc = "print"
    /\ num_batches = 2
    /\ batch_losses = <<1, 0>>
    /\ ret = <<[num |-> 1, den |-> 2]>>

\* C2: with freeze_bert = true, the encoder parameters keep the value they
\* had when train_epoch was entered, all through the epoch and at its
\* return, while the non-encoder parameters have changed at the return; the
\* optimizer holds the encoder parameters all the same.
C2_FrozenEncoderUnchanged ==
    (freeze_bert /\ pc \in InBatch \cup {"batch_loop", "return", "print"}) =>
        /\ "enc" \in opt_params
        /\ params["enc"] = params_at_entry["enc"]
        /\ pc = "print" => params["head"] # params_at_entry["head"]

C2_Witness ==
    /\ freeze_bert
    /\ pc = "print"
    /\ num_batches = 2
    /\ "enc" \in opt_params
    /\ params["head"] = params_at_entry["head"] + 2

\* C3: for both values of freeze_bert the encoder call is not recorded by
\* autograd: the encoder parameters are never in the graph of the outputs,
\* never hold a gradient, and never change; every optimizer step updates
\* the non-encoder parameters only.
C3_EncoderGradientFree ==
    /\ "enc" \notin graph
    /\ ~grad["enc"].has
    /\ params["enc"] = 0
    /\ params["head"] = opt_steps

C3_Witness ==
    /\ ~freeze_bert
    /\ requires_grad["enc"]
    /\ "enc" \in opt_params
    /\ grad["head"].has
    /\ opt_steps = 3

Times(h) == [i \in 1..Len(h) |-> h[i].t]

\* C5 as stated: the row passed to the classifier head is the concatenation
\* of the forward pass's state after all L steps and the backward pass's
\* state after all L steps, i.e. the LSTM's final-state output h_n.
C5_FinalStatesConcatenated ==
    fpc \in {"head", "done"} =>
        \A b \in 1..input_ids[1] : tensor.data[b] = h_n[b]

\* C5 amended: the row passed to the classifier head is the concatenation
\* of the forward pass's state after all L steps (the forward half of h_n)
\* and the backward pass's state at position L, which has consumed the last
\* time step only; h_n's backward half has consumed steps L down to 1, and
\* the two agree when L = 1.
C5_LastStepOutput ==
    fpc \in {"head", "done"} =>
        \A b \in 1..input_ids[1] :
            LET L == input_ids[2]
                fh == tensor.data[b]
            IN /\ Times(fh.fwd) = [i \in 1..L |-> i]
               /\ Times(fh.bwd) = <<L>>
               /\ fh.fwd = h_n[b].fwd
               /\ Times(h_n[b].bwd) = [i \in 1..L |-> L + 1 - i]
               /\ L = 1 => fh = h_n[b]

C5_Witness ==
    /\ fpc = "head"
    /\ input_ids[2] = 2
    /\ Times(tensor.data[1].bwd) = <<2>>
    /\ Times(h_n[1].bwd) = <<2, 1>>

\* C6: for a (B x L) batch and a same-shaped mask of any 0/1 content,
\* forward never fails, the shapes through the stages are (B,L,768),
\* (B,768,L), (B,256,L), (B,L,256), LSTM output (B,L,256), (B,256), (B,64),
\* (B,2), the result has shape (B,2) and one row per input row, and every
\* row is a probability distribution: entries non-negative, summing to 1.
C6_OutputShapeAndDistribution ==
    /\ fpc # "failed"
    /\ fpc = "done" =>
          LET B == input_ids[1]
              L == input_ids[2]
              p == predictions[1]
          IN /\ shapes = << <<B, L, 768>>, <<B, 768, L>>, <<B, 256, L>>, <<B, L, 256>>,
                            <<B, L, 256>>, <<B, 256>>, <<B, 64>>, <<B, 2>> >>
             /\ p.shape = <<B, 2>>
             /\ Len(p.rows) = B
             /\ \A b \in 1..B :
                   /\ Len(p.rows[b]) = 2
                   /\ \A c \in 1..2 : p.rows[b][c].num >= 0 /\ p.rows[b][c].den > 0
                   /\ p.rows[b][1].num * p.rows[b][2].den + p.rows[b][2].num * p.rows[b][1].den
                         = p.rows[b][1].den * p.rows[b][2].den

C6_Witness ==
    /\ fpc = "done"
    /\ input_ids = <<2, 2>>
    /\ attention_mask.data = << <<1, 0>>, <<0, 0>> >>
    /\ predictions[1].shape = <<2, 2>>
    /\ predictions[1].rows[1] # predictions[1].rows[2]

\* C7: once a statement of batch k has raised, the exception has left
\* train_epoch and the driver: nothing runs afterwards (no later batch, no
\* retry, no later epoch), train_epoch has returned no value, no line was
\* printed for the epoch, and the updates of the batches before k stand:
\* the optimizer has made exactly (completed epochs x N) + (k - 1) steps.
C7_ErrorAborts ==
    err # <<>> =>
        /\ pc = "raised"
        /\ ~ENABLED Next
        /\ err[1].site \in FailSites =>
              /\ ret = <<>>
              /\ epoch = err[1].epoch
              /\ k = err[1].batch
              /\ Len(output) = epoch
              /\ opt_steps = epoch * num_batches + (k - 1)
              /\ params["head"] = opt_steps

C7_Witness ==
    /\ pc = "raised"
    /\ err # <<>>
    /\ err[1].site = "backward"
    /\ err[1].epoch = 1
    /\ err[1].batch = 2
    /\ num_batches = 2
    /\ params["head"] = 3

\* C8 as stated: a dropout_rate outside [0,1) never gets past construction.
C8_InvalidDropoutRejected ==
    (pc # "construct" /\ ~(0 <= dropout_rate /\ dropout_rate < 10)) =>
        (pc = "raised" /\ err[1].site = "construct")

\* C8 amended: a dropout_rate outside [0,1] (negative or greater than 1)
\* fails at construction, before any optimizer exists or any training step
\* is made, and never reaches train_epoch; dropout_rate = 1.0 is accepted.
C8_OutOfRangeDropoutRejected ==
    /\ (pc # "construct" /\ (dropout_rate < 0 \/ dropout_rate > 10)) =>
          /\ pc = "raised"
          /\ err[1].site = "construct"
          /\ opt_params = {}
          /\ opt_steps = 0
    /\ (pc # "construct" /\ dropout_rate = 10) =>
          (err = <<>> \/ err[1].site # "construct")

C8_Witness ==
    /\ dropout_rate = 11
    /\ pc = "raised"
    /\ err[1].site = "construct"
    /\ opt_steps = 0

\* C9: the driver prints one line per completed epoch, numbered 1, 2, ...
\* of 5; when it ends without error it has run exactly 5 epochs, the
\* optimizer has made 5 x N steps, and the parameters carry all of them
\* (nothing is re-initialised between epochs).
C9_DriverRunsAllEpochs ==
    /\ pc # "raised" => Len(output) = epoch
    /\ \A i \in 1..Len(output) : output[i].epoch = i /\ output[i].of = 5
    /\ pc = "print" => opt_steps = (epoch + 1) * num_batches
    /\ pc = "done" =>
          /\ Len(output) = 5
          /\ opt_steps = 5 * num_batches
          /\ params["head"] = 5 * num_batches

C9_Witness ==
    /\ pc = "done"
    /\ num_batches = 2
    /\ Len(output) = 5
    /\ opt_steps = 10

\* C10: batches are processed one at a time: when batch k of an epoch is
\* anywhere before its optimizer step, exactly the steps of all earlier
\* batches have been made, and after its step exactly one more; each step
\* changes the parameters once; and the gradient the step of batch k
\* consumes was produced by batch k's backward pass alone.
C10_OneBatchAtATime ==
    /\ pc \in BeforeStep => opt_steps = epoch * num_batches + (k - 1)
    /\ pc \in {"accumulate", "batch_loop", "return"} => opt_steps = epoch * num_batches + k
    /\ pc # "raised" => params["head"] = opt_steps
    /\ pc = "forward" => ~grad["head"].has
    /\ pc = "step" => grad["head"] = [has |-> TRUE, src |-> {<<epoch, k>>}]

C10_Witness ==
    /\ pc = "step"
    /\ epoch = 1
    /\ k = 2
    /\ grad["head"].src = {<<1, 2>>}

====
